---- MODULE Spec2Model ----
(***************************************************************************)
(* Seat reservation of bhavani7.py: the POST /book handler (book_seats)    *)
(* run by several concurrent requests, each on its own sqlite3 connection  *)
(* (get_db keeps the connection in the request's application context) to   *)
(* the one database file bookings.db.                                      *)
(*                                                                         *)
(* The database is modelled by its committed content (seats, bookings) and *)
(* by the file lock every connection holds.  The connections use the       *)
(* default rollback journal and Python's default deferred transactions, so *)
(*   - the first SELECT of a transaction takes a SHARED lock, which is     *)
(*     refused while another connection holds PENDING;                     *)
(*   - the first UPDATE takes the RESERVED lock, of which there is one;    *)
(*     a connection that already reads gets SQLITE_BUSY at once when it    *)
(*     is taken;                                                           *)
(*   - COMMIT takes PENDING and then needs every other connection to have  *)
(*     released its SHARED lock; writes stay private until then;           *)
(*   - a lock that is not granted within the connection's busy timeout     *)
(*     raises sqlite3.OperationalError, which book_seats turns into the    *)
(*     500 answer after db.rollback().                                     *)
(* Waits are not timed: a wait that can time out may time out at any      *)
(* moment while the lock is refused.  The GET routes (seats_for_show,      *)
(* list_bookings) run next to the requests as one reader, and the variable *)
(* clock holds the last reading of datetime.now() a booking was stamped    *)
(* with.                                                                   *)
(***************************************************************************)
EXTENDS Integers, Sequences, FiniteSets, TLC

\* ---------------------------------------------------------------- bounds
\* Number of POST /book requests of one run.
NumCalls == 2
\* Longest seat list a request carries.
MaxLen == 2
\* Clock readings per second (a second has 1000000 microseconds).
MicrosPerSecond == 2

\* ------------------------------------------------------------ seeded data
\* Price of the first movie's shows, and the step from one movie to the next.
BasePrice == 150
PriceStep == 20
\* Two of the seeded shows: show 1 (first movie) and show 4 (second movie).
FirstShow == 1
SecondShow == 4
\* An id no seeded show has.
NoShowId == 28

Shows == {FirstShow, SecondShow}
ShowIds == Shows \cup {NoShowId}
ShowPrice == [s \in Shows |-> IF s = FirstShow THEN BasePrice ELSE BasePrice + PriceStep]

\* Two labels of the seeded layout, and a label no show has.
SeatLabels == {"A1", "A2"}
GhostLabel == "Z9"
AllLabels == SeatLabels \cup {GhostLabel}
Customers == {"Asha"}

Calls == 1..NumCalls
SeatLists == UNION {[1..n -> AllLabels] : n \in 0..MaxLen}

\* ------------------------------------------------------------- answers
NoLabel == "-"
\* The answer of a request: the kind of error and the label its message
\* names, or the JSON body of the 201 answer.
NoAnswer ==
    [kind |-> "None", label |-> NoLabel, booking_id |-> 0, show_id |-> 0,
     seats |-> <<>>, total_price |-> 0]
Failure(kind, label) == [NoAnswer EXCEPT !.kind = kind, !.label = label]
Created(id, sid, sr, total) ==
    [kind |-> "Success", label |-> NoLabel, booking_id |-> id, show_id |-> sid,
     seats |-> sr, total_price |-> total]
FailureKinds == {"InvalidInput", "NotFound", "InvalidSeat", "Conflict", "StorageFailure"}

NoRequest == [show_id |-> 0, customer_name |-> "", seats |-> <<>>]

VARIABLES
    seats,     \* committed seats table: show id -> seat label -> status
    bookings,  \* committed bookings table, in insertion order
    pc,        \* where each request stands in book_seats
    req,       \* the request's JSON body while it is served
    lock,      \* the file lock the request's connection holds
    price,     \* local 'price'
    upd,       \* number of UPDATE statements the request has executed
    ins,       \* the row the request's INSERT has written, not yet committed
    result,    \* the answer returned
    shows,     \* committed shows table: show id -> price
    clock,     \* the last reading of datetime.now(), in microseconds
    rpc,       \* where the GET request being served stands
    rshow,     \* the show id in the GET request's path
    ranswer    \* the answer to the last GET request

rvars == <<rpc, rshow, ranswer>>
vars == <<seats, bookings, pc, req, lock, price, upd, ins, result, shows, clock, rvars>>

\* ------------------------------------------------------------- helpers
Range(f) == {f[k] : k \in DOMAIN f}

RECURSIVE MaxOf(_)
MaxOf(S) == IF S = {} THEN 0
            ELSE LET x == CHOOSE y \in S : TRUE
                     m == MaxOf(S \ {x})
                 IN IF x > m THEN x ELSE m

\* ','.join(seats_req): the labels with a separator between neighbours.
RECURSIVE JoinCsv(_)
JoinCsv(sr) == IF Len(sr) = 0 THEN <<>>
               ELSE IF Len(sr) = 1 THEN <<sr[1]>>
               ELSE <<sr[1], ",">> \o JoinCsv(Tail(sr))

\* The labels a seats column holds.
CsvLabels(csv) == SelectSeq(csv, LAMBDA x : x # ",")

\* Mutant of Total: the price of one seat, whatever the number of seats.
TotalOfOneSeat(p, sr) == p

\* price * len(seats_req)
Total(p, sr) == p * Len(sr)

\* Mutant of NextId: every row gets the same id.
NextIdFixed(bks) == 1

\* INTEGER PRIMARY KEY AUTOINCREMENT: one more than the largest id so far.
NextId(bks) == MaxOf({bks[k].id : k \in DOMAIN bks}) + 1

\* datetime.now() when the wall clock has moved on since the last reading.
Now == clock + 1

\* datetime.isoformat() of a reading: the text of the second, followed by
\* the microseconds unless they are zero; every field has a fixed width.
IsoFormat(t) ==
    IF t % MicrosPerSecond = 0
    THEN <<t \div MicrosPerSecond>>
    ELSE <<t \div MicrosPerSecond, t % MicrosPerSecond>>

\* Order of two TEXT values in SQLite: the first field that differs
\* decides, and a text that is the beginning of another comes first.
RECURSIVE TextLess(_, _)
TextLess(a, b) ==
    IF a = <<>> THEN b # <<>>
    ELSE IF b = <<>> THEN FALSE
    ELSE IF a[1] # b[1] THEN a[1] < b[1]
    ELSE TextLess(Tail(a), Tail(b))

\* The answer to a GET request: the route, the HTTP status and the rows of
\* the JSON body.
NoReply == [route |-> "", status |-> 0, rows |-> <<>>]
Reply(route, st, rows) == [route |-> route, status |-> st, rows |-> rows]

\* The seeded labels in the order of "ORDER BY seat_label".
SeatOrder == <<"A1", "A2">>

\* seats_for_show: the rows of the show in label order, under HTTP 200;
\* a show without seats has no rows.
SeatRows(table, sid) ==
    IF sid \in DOMAIN table
    THEN [k \in DOMAIN SeatOrder |->
            [seat_label |-> SeatOrder[k], status |-> table[sid][SeatOrder[k]]]]
    ELSE <<>>

Perms(n) == {p \in [1..n -> 1..n] : \A j, k \in 1..n : j # k => p[j] # p[k]}

\* The bookings joined with their show (and its movie and cinema).
Joined(bks) == SelectSeq(bks, LAMBDA b : b.show_id \in Shows)

\* list_bookings: the orders "ORDER BY b.created_at DESC" can return the
\* joined rows in; rows with equal created_at come in any order.
Listings(bks) ==
    LET rows == Joined(bks)
    IN {[k \in DOMAIN rows |-> rows[p[k]]] : p \in
          {q \in Perms(Len(rows)) :
             \A j, k \in DOMAIN rows :
                j < k => ~TextLess(rows[q[j]].created_at, rows[q[k]].created_at)}}

\* The rows "SELECT seat_label, status FROM seats WHERE show_id=? AND
\* seat_label IN (...)" returns, as the dict 'found'.
Found(sid, sr) == [l \in (Range(sr) \cap SeatLabels) |-> seats[sid][l]]

\* Mutant of CheckSeats: the loop runs over seats_req from its end.
RECURSIVE CheckSeatsFromEnd(_, _)
CheckSeatsFromEnd(sr, found) ==
    IF sr = <<>> THEN NoAnswer
    ELSE LET last == sr[Len(sr)]
         IN IF last \notin DOMAIN found THEN Failure("InvalidSeat", last)
            ELSE IF found[last] # "available" THEN Failure("Conflict", last)
            ELSE CheckSeatsFromEnd(SubSeq(sr, 1, Len(sr) - 1), found)

\* The loop over seats_req: the answer of the first label that is not in
\* 'found' or not available, NoAnswer when every label passes.
RECURSIVE CheckSeats(_, _)
CheckSeats(sr, found) ==
    IF sr = <<>> THEN NoAnswer
    ELSE IF Head(sr) \notin DOMAIN found THEN Failure("InvalidSeat", Head(sr))
    ELSE IF found[Head(sr)] # "available" THEN Failure("Conflict", Head(sr))
    ELSE CheckSeats(Tail(sr), found)

\* Labels the request's UPDATE statements have flipped in its transaction.
Wrote(c) == {req[c].seats[k] : k \in 1..upd[c]}

\* SHARED is granted unless another connection holds PENDING.
CanRead(c) == \A d \in Calls \ {c} : lock[d] # "PENDING"

\* RESERVED is granted unless another connection holds it (or PENDING).
CanReserve(c) == \A d \in Calls \ {c} : lock[d] \notin {"RESERVED", "PENDING"}

\* Mutant of CanCommit: the commit does not wait for the readers.
CanCommitAtOnce(c) == TRUE

\* EXCLUSIVE is granted once no other connection holds any lock: no other
\* POST request, and no GET request between execute() and fetchall().
CanCommit(c) == (\A d \in Calls \ {c} : lock[d] = "NONE") /\ rpc = "idle"

\* Mutant of RolledBack: the flips made so far stay in the table.
RolledBackKeepsFlips(c) ==
    IF req[c].show_id \in Shows
    THEN [seats EXCEPT ![req[c].show_id] =
            [l \in SeatLabels |-> IF l \in Wrote(c) THEN "booked" ELSE @[l]]]
    ELSE seats

\* Mutant of RolledBack: every requested seat is set back to available.
RolledBackFreesSeats(c) ==
    IF req[c].show_id \in Shows
    THEN [seats EXCEPT ![req[c].show_id] =
            [l \in SeatLabels |-> IF l \in Range(req[c].seats) THEN "available" ELSE @[l]]]
    ELSE seats

\* The seats table after db.rollback(): the transaction's flips are dropped.
RolledBack(c) == seats

\* Mutant of Committed: the UPDATE has no "show_id=?" in its WHERE clause,
\* so it flips the label in every show.
CommittedInEveryShow(c) ==
    [sid \in DOMAIN seats |->
        [l \in SeatLabels |-> IF l \in Wrote(c) THEN "booked" ELSE seats[sid][l]]]

\* The seats table after db.commit(): the transaction's flips are applied.
Committed(c) ==
    [seats EXCEPT ![req[c].show_id] =
        [l \in SeatLabels |-> IF l \in Wrote(c) THEN "booked" ELSE @[l]]]

\* The request returns 'r'; its connection is closed with the app context.
Return(c, r) ==
    /\ pc' = [pc EXCEPT ![c] = "done"]
    /\ req' = [req EXCEPT ![c] = NoRequest]
    /\ result' = [result EXCEPT ![c] = r]
    /\ lock' = [lock EXCEPT ![c] = "NONE"]
    /\ price' = [price EXCEPT ![c] = 0]
    /\ upd' = [upd EXCEPT ![c] = 0]
    /\ ins' = [ins EXCEPT ![c] = <<>>]
    /\ UNCHANGED <<shows, clock, rvars>>

\* Mutant of Fail: the error answer is sent without db.rollback() and
\* without closing the connection, so the transaction stays open.
FailKeepsTransaction(c, r) ==
    /\ pc' = [pc EXCEPT ![c] = "done"]
    /\ req' = [req EXCEPT ![c] = NoRequest]
    /\ result' = [result EXCEPT ![c] = r]
    /\ UNCHANGED <<seats, bookings, lock, price, upd, ins, shows, clock, rvars>>

\* An error answer: every path to it calls db.rollback() first.
Fail(c, r) ==
    /\ Return(c, r)
    /\ seats' = RolledBack(c)
    /\ UNCHANGED bookings

\* ---------------------------------------------------------------- Init
Init ==
    /\ seats = [s \in Shows |-> [l \in SeatLabels |-> "available"]]
    /\ bookings = <<>>
    /\ pc = [c \in Calls |-> "idle"]
    /\ req = [c \in Calls |-> NoRequest]
    /\ lock = [c \in Calls |-> "NONE"]
    /\ price = [c \in Calls |-> 0]
    /\ upd = [c \in Calls |-> 0]
    /\ ins = [c \in Calls |-> <<>>]
    /\ result = [c \in Calls |-> NoAnswer]
    /\ shows = ShowPrice
    /\ clock = 0
    /\ rpc = "idle"
    /\ rshow = 0
    /\ ranswer = NoReply

\* -------------------------------------------------------------- actions
\* A request arrives (requests are numbered in order of arrival): the body
\* is read, an empty seat list is answered 400, otherwise BEGIN is executed.
ReceiveOf(c, sids, lists) ==
    /\ pc[c] = "idle"
    /\ (IF c = 1 THEN TRUE ELSE pc[c - 1] # "idle")
    /\ \E sid \in sids, cust \in Customers, sr \in lists :
        IF sr = <<>>
        THEN /\ pc' = [pc EXCEPT ![c] = "done"]
             /\ result' = [result EXCEPT ![c] = Failure("InvalidInput", NoLabel)]
             /\ UNCHANGED req
        ELSE /\ pc' = [pc EXCEPT ![c] = "select_price"]
             /\ req' = [req EXCEPT ![c] =
                          [show_id |-> sid, customer_name |-> cust, seats |-> sr]]
             /\ UNCHANGED result
    /\ UNCHANGED <<seats, bookings, lock, price, upd, ins, shows, clock, rvars>>

ReceiveFrom(c, sids) == ReceiveOf(c, sids, SeatLists)

\* Requests for one seeded show or for a show that does not exist.
Receive(c) == ReceiveFrom(c, {FirstShow, NoShowId})

\* SELECT price FROM shows WHERE id=?, and the 404 answer when no row.
SelectPrice(c) ==
    /\ pc[c] = "select_price"
    /\ CanRead(c)
    /\ IF req[c].show_id \notin DOMAIN shows
       THEN Fail(c, Failure("NotFound", NoLabel))
       ELSE /\ lock' = [lock EXCEPT ![c] = "SHARED"]
            /\ price' = [price EXCEPT ![c] = shows[req[c].show_id]]
            /\ pc' = [pc EXCEPT ![c] = "select_seats"]
            /\ UNCHANGED <<seats, bookings, req, upd, ins, result, shows, clock, rvars>>

\* The SELECT waits for SHARED past the busy timeout: sqlite3.Error, 500.
SelectPriceBusy(c) ==
    /\ pc[c] = "select_price"
    /\ ~CanRead(c)
    /\ Fail(c, Failure("StorageFailure", NoLabel))

\* SELECT seat_label, status ..., then the loop that checks every label.
SelectSeats(c) ==
    /\ pc[c] = "select_seats"
    /\ LET r == CheckSeats(req[c].seats, Found(req[c].show_id, req[c].seats))
       IN IF r # NoAnswer
          THEN Fail(c, r)
          ELSE /\ pc' = [pc EXCEPT ![c] = "update"]
               /\ UNCHANGED <<seats, bookings, req, lock, price, upd, ins, result,
                               shows, clock, rvars>>

\* One pass of the loop "UPDATE seats SET status='booked' ...".
Update(c) ==
    /\ pc[c] = "update"
    /\ (IF lock[c] = "RESERVED" THEN TRUE ELSE CanReserve(c))
    /\ lock' = [lock EXCEPT ![c] = "RESERVED"]
    /\ upd' = [upd EXCEPT ![c] = @ + 1]
    /\ pc' = [pc EXCEPT ![c] = IF upd[c] + 1 = Len(req[c].seats) THEN "insert" ELSE "update"]
    /\ UNCHANGED <<seats, bookings, req, price, ins, result, shows, clock, rvars>>

\* The first UPDATE finds RESERVED taken: SQLITE_BUSY, sqlite3.Error, 500.
UpdateBusy(c) ==
    /\ pc[c] = "update"
    /\ lock[c] = "SHARED"
    /\ ~CanReserve(c)
    /\ Fail(c, Failure("StorageFailure", NoLabel))

\* total = price * len(seats_req); now = datetime.now().isoformat();
\* INSERT INTO bookings ...; lastrowid.
InsertAt(c, t) ==
    /\ pc[c] = "insert"
    /\ clock' = t
    /\ ins' = [ins EXCEPT ![c] =
                 << [id |-> NextId(bookings),
                     show_id |-> req[c].show_id,
                     customer_name |-> req[c].customer_name,
                     seats |-> JoinCsv(req[c].seats),
                     total_price |-> Total(price[c], req[c].seats),
                     created_at |-> IsoFormat(t)] >>]
    /\ pc' = [pc EXCEPT ![c] = "commit"]
    /\ UNCHANGED <<seats, bookings, req, lock, price, upd, result, shows, rvars>>

\* datetime.now() reads a later time than the reading before it.
Insert(c) == InsertAt(c, Now)

\* datetime.now() is the naive local wall clock: it reads the time of an
\* earlier reading again (timer resolution) or a time before it (the clock
\* was set back, or daylight saving time ended).
InsertSkewed(c) == \E t \in 0..clock : InsertAt(c, t)

\* db.commit() starts: the connection takes PENDING.
CommitStart(c) ==
    /\ pc[c] = "commit"
    /\ lock' = [lock EXCEPT ![c] = "PENDING"]
    /\ pc' = [pc EXCEPT ![c] = "committing"]
    /\ UNCHANGED <<seats, bookings, req, price, upd, ins, result, shows, clock, rvars>>

\* db.commit() gets EXCLUSIVE, writes and unlocks; the 201 answer.
CommitFinish(c) ==
    /\ pc[c] = "committing"
    /\ CanCommit(c)
    /\ seats' = Committed(c)
    /\ bookings' = bookings \o ins[c]
    /\ Return(c, Created(ins[c][1].id, req[c].show_id, req[c].seats, ins[c][1].total_price))

\* db.commit() waits for the readers past the busy timeout: sqlite3.Error.
CommitBusy(c) ==
    /\ pc[c] = "committing"
    /\ ~CanCommit(c)
    /\ Fail(c, Failure("StorageFailure", NoLabel))

Next ==
    \E c \in Calls :
        \/ Receive(c)
        \/ SelectPrice(c)
        \/ SelectPriceBusy(c)
        \/ SelectSeats(c)
        \/ Update(c)
        \/ UpdateBusy(c)
        \/ Insert(c)
        \/ CommitStart(c)
        \/ CommitFinish(c)
        \/ CommitBusy(c)

Spec == Init /\ [][Next]_vars

\* One client that sends its next request after the answer to the last one:
\* no lock is ever refused.
ReceiveAlone(c) ==
    /\ \A d \in Calls : pc[d] \in {"idle", "done"}
    /\ Receive(c)

NextSeq ==
    \E c \in Calls :
        \/ ReceiveAlone(c)
        \/ SelectPrice(c)
        \/ SelectSeats(c)
        \/ Update(c)
        \/ Insert(c)
        \/ CommitStart(c)
        \/ CommitFinish(c)

SpecSeq == Init /\ [][NextSeq]_vars

\* ------------------------------------------------------ the GET routes
\* A GET request runs one SELECT in autocommit mode: execute() takes the
\* SHARED lock, fetchall() reads the rows and releases it.
ReaderCanRead == \A d \in Calls : lock[d] # "PENDING"

\* GET /bookings: get_db().execute(...).
ListExecute ==
    /\ rpc = "idle"
    /\ ReaderCanRead
    /\ rpc' = "list"
    /\ rshow' = 0
    /\ ranswer' = NoReply
    /\ UNCHANGED <<seats, bookings, pc, req, lock, price, upd, ins, result, shows, clock>>

\* GET /bookings: cur.fetchall() and the JSON answer.
ListFetch ==
    /\ rpc = "list"
    /\ \E rows \in Listings(bookings) : ranswer' = Reply("bookings", 200, rows)
    /\ rpc' = "idle"
    /\ UNCHANGED <<seats, bookings, pc, req, lock, price, upd, ins, result, shows, clock, rshow>>

\* GET /shows/<id>/seats: get_db().execute(...).
SeatsExecute ==
    /\ rpc = "idle"
    /\ ReaderCanRead
    /\ rpc' = "seats"
    /\ \E sid \in ShowIds : rshow' = sid
    /\ ranswer' = NoReply
    /\ UNCHANGED <<seats, bookings, pc, req, lock, price, upd, ins, result, shows, clock>>

\* GET /shows/<id>/seats: cur.fetchall() and the JSON answer.
SeatsFetch ==
    /\ rpc = "seats"
    /\ ranswer' = Reply("seats", 200, SeatRows(seats, rshow))
    /\ rpc' = "idle"
    /\ UNCHANGED <<seats, bookings, pc, req, lock, price, upd, ins, result, shows, clock, rshow>>

\* execute() waits for SHARED past the busy timeout: the sqlite3.Error is
\* not caught by the route, and the request is answered 500.
GetBusy ==
    /\ rpc = "idle"
    /\ ~ReaderCanRead
    /\ \E route \in {"bookings", "seats"} : ranswer' = Reply(route, 500, <<>>)
    /\ rshow' = 0
    /\ UNCHANGED <<seats, bookings, pc, req, lock, price, upd, ins, result, shows, clock, rpc>>

\* POST requests for one seat of either seeded show, next to GET requests.
SingleSeatLists == {<<l>> : l \in SeatLabels}
ReceiveSingle(c) == ReceiveOf(c, Shows, SingleSeatLists)

NextGet ==
    \/ \E c \in Calls :
        \/ ReceiveSingle(c)
        \/ SelectPrice(c)
        \/ SelectPriceBusy(c)
        \/ SelectSeats(c)
        \/ Update(c)
        \/ UpdateBusy(c)
        \/ Insert(c)
        \/ InsertSkewed(c)
        \/ CommitStart(c)
        \/ CommitFinish(c)
        \/ CommitBusy(c)
    \/ ListExecute
    \/ ListFetch
    \/ SeatsExecute
    \/ SeatsFetch
    \/ GetBusy

SpecGet == Init /\ [][NextGet]_vars

\* Every wait for a lock ends before the busy timeout: the only lock error
\* left is the one SQLite raises at once, for the first UPDATE.
NextPrompt ==
    \E c \in Calls :
        \/ Receive(c)
        \/ SelectPrice(c)
        \/ SelectSeats(c)
        \/ Update(c)
        \/ UpdateBusy(c)
        \/ Insert(c)
        \/ CommitStart(c)
        \/ CommitFinish(c)

SpecPrompt == Init /\ [][NextPrompt]_vars

\* A statement after the first UPDATE raises sqlite3.Error (disk full, I/O
\* error): a later UPDATE, the INSERT, or db.commit().  The except clause
\* rolls back and answers 500.
StorageError(c) ==
    /\ pc[c] \in {"update", "insert", "commit", "committing"}
    /\ upd[c] >= 1
    /\ Fail(c, Failure("StorageFailure", NoLabel))

NextFaults ==
    \/ Next
    \/ \E c \in Calls : StorageError(c)

SpecFaults == Init /\ [][NextFaults]_vars

\* Requests for one seat of either seeded show; every wait for a lock ends
\* before the busy timeout.
NextShows ==
    \E c \in Calls :
        \/ ReceiveSingle(c)
        \/ SelectPrice(c)
        \/ SelectSeats(c)
        \/ Update(c)
        \/ UpdateBusy(c)
        \/ Insert(c)
        \/ CommitStart(c)
        \/ CommitFinish(c)

SpecShows == Init /\ [][NextShows]_vars

\* The steps of a request after its arrival.  The server runs every request
\* it has accepted in a thread of its own, and a statement that waits for a
\* lock stops waiting at the busy timeout: a request that can take a step
\* is not kept from it forever.
Step(c) ==
    \/ SelectPrice(c)
    \/ SelectPriceBusy(c)
    \/ SelectSeats(c)
    \/ Update(c)
    \/ UpdateBusy(c)
    \/ Insert(c)
    \/ CommitStart(c)
    \/ CommitFinish(c)
    \/ CommitBusy(c)

NextFair == \E c \in Calls : ReceiveSingle(c) \/ Step(c)

SpecFair == Init /\ [][NextFair]_vars /\ \A c \in Calls : WF_vars(Step(c))

\* ------------------------------------------------- vocabulary of the claims
Served(c) == pc[c] \notin {"idle", "done"}
Returns(c) == Served(c) /\ pc'[c] = "done"
Succeeded(c) == result[c].kind = "Success"
Untouched == seats' = seats /\ bookings' = bookings

Distinct(sr) == \A j, k \in DOMAIN sr : j # k => sr[j] # sr[k]
HasDuplicate(sr) == ~Distinct(sr)
Booked(sid) == {l \in SeatLabels : seats[sid][l] = "booked"}
SuccessSeats(sid) ==
    UNION {Range(result[c].seats) : c \in {d \in Calls : Succeeded(d) /\ result[d].show_id = sid}}

\* The first label of sr that satisfies P, NoLabel when none does.
FirstLabel(sr, P(_)) ==
    IF \E k \in DOMAIN sr : P(sr[k])
    THEN sr[CHOOSE k \in DOMAIN sr : P(sr[k]) /\ \A j \in 1..(k - 1) : ~P(sr[j])]
    ELSE NoLabel

\* A request that no check of its own content rejects.
ValidRequest(r) ==
    /\ r.show_id \in Shows
    /\ r.seats # <<>>
    /\ Distinct(r.seats)
    /\ Range(r.seats) \subseteq SeatLabels

\* Another request for the same show shares a seat with c's: one that is
\* being served, or one that has been answered 201.
Contended(c) ==
    \E d \in Calls \ {c} :
        \/ /\ Served(d)
           /\ req[d].show_id = req[c].show_id
           /\ Range(req[d].seats) \cap Range(req[c].seats) # {}
        \/ /\ Succeeded(d)
           /\ result[d].show_id = req[c].show_id
           /\ Range(result[d].seats) \cap Range(req[c].seats) # {}

\* ------------------------------------------------------------------ C1
\* C1: no double-booking.  In every state, and so in the final one, the
\* booked seats of a show are exactly the seats of the requests for it that
\* were answered with success, and two requests answered with success for
\* one show have no seat label in common.
NoDoubleBooking ==
    /\ \A sid \in Shows : Booked(sid) = SuccessSeats(sid)
    /\ \A c, d \in Calls :
         (c # d /\ Succeeded(c) /\ Succeeded(d) /\ result[c].show_id = result[d].show_id)
            => Range(result[c].seats) \cap Range(result[d].seats) = {}

\* Every request is answered, two of them with success for the same show.
TwoWinnersDone ==
    /\ \A c \in Calls : pc[c] = "done"
    /\ \E c, d \in Calls :
         c # d /\ Succeeded(c) /\ Succeeded(d) /\ result[c].show_id = result[d].show_id

\* ------------------------------------------------------------------ C2
\* C2: at most one winner, and a Conflict for the losers.  A request that
\* is valid in itself and shares a seat with a concurrent request is
\* answered either with success, and then no request sharing a seat with it
\* has succeeded, or with Conflict; never with another kind of error.
OneWinnerOthersConflict ==
    [][\A c \in Calls :
         (Returns(c) /\ ValidRequest(req[c]) /\ Contended(c))
            => \/ result'[c].kind = "Conflict"
               \/ /\ result'[c].kind = "Success"
                  /\ \A d \in Calls \ {c} :
                       (Succeeded(d) /\ result[d].show_id = req[c].show_id)
                          => Range(result[d].seats) \cap Range(req[c].seats) = {}]_vars

\* ------------------------------------------------------------------ C3
\* C3: no partial application.  The step by which a request is answered
\* with a failure of any kind changes no seat status and no booking record,
\* and so does every other step except the one that answers a request with
\* success; a request for <<A1, A2>> evaluated with A1 available and A2
\* booked leaves A1 available.
NoPartialApplication ==
    [][/\ \A c \in Calls :
            (result[c] = NoAnswer /\ result'[c].kind \in FailureKinds) => Untouched
       /\ ~Untouched => \E c \in Calls : result[c] = NoAnswer /\ result'[c].kind = "Success"
       /\ \A c \in Calls :
            (/\ pc[c] = "select_seats"
             /\ pc'[c] # "select_seats"
             /\ req[c].seats = <<"A1", "A2">>
             /\ seats[req[c].show_id]["A1"] = "available"
             /\ seats[req[c].show_id]["A2"] = "booked")
            => /\ result'[c].kind = "Conflict"
               /\ seats'[req[c].show_id]["A1"] = "available"]_vars

\* A request was refused because A2 is booked, and A1 is still available.
RefusedLeavesA1 ==
    \E c \in Calls :
        /\ result[c] = Failure("Conflict", "A2")
        /\ seats[FirstShow]["A1"] = "available"
        /\ seats[FirstShow]["A2"] = "booked"
        /\ Len(bookings) = 1

\* ------------------------------------------------------------------ C4
\* C4: duplicate label rejection.  A request for an existing show whose
\* seat list names a label of the layout more than once is answered with
\* InvalidInput, and the answer leaves seats and bookings unchanged.
DuplicateRejected ==
    [][\A c \in Calls :
         (/\ Returns(c)
          /\ req[c].show_id \in Shows
          /\ Range(req[c].seats) \subseteq SeatLabels
          /\ HasDuplicate(req[c].seats))
            => (result'[c].kind = "InvalidInput" /\ Untouched)]_vars

\* ------------------------------------------------------------------ C5
\* C5: seat existence is checked before availability.  A request for an
\* existing show with a non-empty list of distinct labels, one of which is
\* no seat of the show, is answered with InvalidSeat naming the first such
\* label, whatever the status of the other labels, and books nothing.
ExistenceBeforeAvailability ==
    [][\A c \in Calls :
         (/\ Returns(c)
          /\ req[c].show_id \in Shows
          /\ Distinct(req[c].seats)
          /\ ~(Range(req[c].seats) \subseteq SeatLabels))
            => /\ result'[c] =
                    Failure("InvalidSeat",
                            FirstLabel(req[c].seats, LAMBDA l : l \notin SeatLabels))
               /\ Untouched]_vars

\* ------------------------------------------------------------------ C6
\* C6: a request for an existing show with a non-empty list of distinct
\* labels that are all seats of the show, evaluated (seat query and check
\* loop) while at least one of them is booked, is answered with Conflict
\* naming the first booked label of the list.
ConflictNamesFirstBooked ==
    [][\A c \in Calls :
         (/\ pc[c] = "select_seats"
          /\ pc'[c] # "select_seats"
          /\ Distinct(req[c].seats)
          /\ Range(req[c].seats) \subseteq SeatLabels
          /\ Range(req[c].seats) \cap Booked(req[c].show_id) # {})
            => /\ pc'[c] = "done"
               /\ result'[c] =
                    Failure("Conflict",
                            FirstLabel(req[c].seats,
                                       LAMBDA l : seats[req[c].show_id][l] = "booked"))]_vars

\* A request was refused for A1 while both seats of the show were booked.
RefusedForFirstBooked ==
    \E c \in Calls :
        /\ result[c] = Failure("Conflict", "A1")
        /\ Booked(FirstShow) = SeatLabels

\* ------------------------------------------------------------------ C7
\* C7: input and show checks precede seat checks.  A request is answered
\* on arrival exactly when its seat list is empty, and then with
\* InvalidInput; a request with a non-empty list for a show that does not
\* exist is answered with NotFound; neither changes seats or bookings.
InputAndShowChecksFirst ==
    [][\A c \in Calls :
         /\ (pc[c] = "idle" /\ pc'[c] = "done")
               => (result'[c].kind = "InvalidInput" /\ Untouched)
         /\ (pc[c] = "idle" /\ pc'[c] = "select_price") => req'[c].seats # <<>>
         /\ (Returns(c) /\ req[c].show_id \notin Shows)
               => (result'[c].kind = "NotFound" /\ Untouched)]_vars

\* ------------------------------------------------------------------ C8
\* C8: price computation.  Every booking record, and the answer that
\* reports it, has total_price equal to the price of its show times the
\* number of seat labels the record holds.
PriceComputation ==
    /\ \A k \in DOMAIN bookings :
         bookings[k].total_price =
            ShowPrice[bookings[k].show_id] * Len(CsvLabels(bookings[k].seats))
    /\ \A c \in Calls :
         Succeeded(c) =>
            /\ result[c].total_price = ShowPrice[result[c].show_id] * Len(result[c].seats)
            /\ \E k \in DOMAIN bookings :
                 /\ bookings[k].id = result[c].booking_id
                 /\ bookings[k].total_price = result[c].total_price
                 /\ CsvLabels(bookings[k].seats) = result[c].seats

\* A booking of A1 and A2 for the show priced 150 with total_price 300.
TwoSeatsCost300 ==
    \E k \in DOMAIN bookings :
        /\ bookings[k].show_id = FirstShow
        /\ bookings[k].seats = <<"A1", ",", "A2">>
        /\ bookings[k].total_price = 300

\* ------------------------------------------------------------------ C9
\* C9: booked is terminal.  No step changes the status of a seat except
\* from available to booked: a seat that is booked stays booked, whatever
\* requests succeed, fail or are rolled back afterwards.
BookedIsTerminal ==
    [][\A sid \in Shows, l \in SeatLabels :
         seats[sid][l] = "booked" => seats'[sid][l] = "booked"]_vars

\* A seat is booked and a later request that asked for it has failed.
BookedThenRefused ==
    \E c, d \in Calls :
        /\ Succeeded(c)
        /\ result[d].kind = "Conflict"
        /\ result[d].label \in Range(result[c].seats)
        /\ seats[result[c].show_id][result[d].label] = "booked"

\* ------------------------------------------------------------------ C10
\* C10: the booking store is append-only with fresh identifiers.  Every
\* step leaves the bookings as they are or appends one record whose id is
\* greater than every id in the store; the store grows exactly in the steps
\* that answer a request with success, and the answer carries the new id.
AppendOnlyFreshIds ==
    [][/\ \/ bookings' = bookings
          \/ /\ Len(bookings') = Len(bookings) + 1
             /\ SubSeq(bookings', 1, Len(bookings)) = bookings
             /\ \A k \in DOMAIN bookings : bookings'[Len(bookings')].id > bookings[k].id
       /\ bookings' # bookings
            => \E c \in Calls : result[c] = NoAnswer /\ result'[c].kind = "Success"
       /\ \A c \in Calls :
            (result[c] = NoAnswer /\ result'[c].kind = "Success")
               => /\ Len(bookings') = Len(bookings) + 1
                  /\ bookings'[Len(bookings')].id = result'[c].booking_id]_vars

\* Two bookings are in the store, with different ids.
TwoBookingsStored ==
    /\ Len(bookings) >= 2
    /\ bookings[1].id # bookings[2].id

\* ------------------------------------------------------------------ C11
\* C11: GET /bookings answers with every committed booking, most recent
\* first: the rows it returns are the bookings in the reverse of the order
\* in which their requests committed, also when the requests overlapped.
\* The code orders the rows by the created_at text, which follows the commit
\* order only while every clock reading is later than the one before.
Reverse(sq) == [k \in DOMAIN sq |-> sq[Len(sq) + 1 - k]]

ListMostRecentFirst ==
    [][(rpc = "list" /\ rpc' = "idle")
          => (ranswer'.status = 200 /\ ranswer'.rows = Reverse(bookings))]_vars

\* ------------------------------------------------------------------ C12
\* C12: requests for different shows never contend.  A request returning
\* while every other request being served is for another show gets the
\* answer it would have got running alone on the committed tables: it is
\* not failed because of a request for a different show.
OnlyOtherShows(c) ==
    \A d \in Calls \ {c} : Served(d) => req[d].show_id # req[c].show_id

AloneKind(c) ==
    IF req[c].show_id \notin Shows THEN "NotFound"
    ELSE LET r == CheckSeats(req[c].seats, Found(req[c].show_id, req[c].seats))
         IN IF r = NoAnswer THEN "Success" ELSE r.kind

DifferentShowsNeverContend ==
    [][\A c \in Calls :
         (Returns(c) /\ OnlyOtherShows(c)) => result'[c].kind = AloneKind(c)]_vars

\* ------------------------------------------------------------------ C13
\* C13: reading the seat statuses of a show that has no seats recorded at
\* all fails with NotFound (404); it is not answered like a successful read
\* with an empty list of seats.
NoSeatsRecorded(sid) == sid \notin DOMAIN seats

SeatsOfSeatlessShowNotFound ==
    [][(rpc = "seats" /\ rpc' = "idle" /\ NoSeatsRecorded(rshow))
          => ranswer'.status = 404]_vars

\* ------------------------------------------------------------------ C14
\* C14: commit-time availability.  The step that adds a booking record
\* adds exactly one, and every seat label in the record is available in the
\* committed seats table just before that step and booked just after it: no
\* request commits on an availability read that another commit has made
\* stale.
CommitTimeAvailability ==
    [][bookings' # bookings =>
         /\ Len(bookings') = Len(bookings) + 1
         /\ SubSeq(bookings', 1, Len(bookings)) = bookings
         /\ LET b == bookings'[Len(bookings')]
            IN /\ b.show_id \in Shows
               /\ \A k \in DOMAIN CsvLabels(b.seats) :
                    /\ seats[b.show_id][CsvLabels(b.seats)[k]] = "available"
                    /\ seats'[b.show_id][CsvLabels(b.seats)[k]] = "booked"]_vars

\* A1 is booked by the one stored booking, and a request that was served
\* next to the winner was refused with a storage failure.
CommittedBesideRefusedRival ==
    /\ Len(bookings) = 1
    /\ CsvLabels(bookings[1].seats) = <<"A1">>
    /\ seats[FirstShow]["A1"] = "booked"
    /\ \E c, d \in Calls :
         /\ Succeeded(c)
         /\ result[c].booking_id = bookings[1].id
         /\ pc[d] = "done"
         /\ result[d].kind = "StorageFailure"

\* ------------------------------------------------------------------ C15
\* C15: the seats are flipped before the booking is appended, and a storage
\* failure after the first flip (at a later UPDATE, at the INSERT or at the
\* commit) rolls back every flip of the request: the committed tables are
\* as before the request, its seats are still available, and nothing of its
\* transaction is left.
FlipsThenAppendOrRollBack ==
    [][\A c \in Calls :
         /\ ins'[c] # <<>> => (upd'[c] >= 1 /\ upd'[c] = Len(req'[c].seats))
         /\ (Returns(c) /\ upd[c] >= 1 /\ result'[c].kind = "StorageFailure")
               => /\ Untouched
                  /\ \A l \in Range(req[c].seats) :
                       seats'[req[c].show_id][l] = "available"
                  /\ upd'[c] = 0
                  /\ ins'[c] = <<>>
                  /\ lock'[c] = "NONE"]_vars

\* The only request so far was answered with a storage failure, which no
\* other request can have caused: a statement after its first flip failed,
\* and no seat is booked and no booking is stored.
LoneRequestFailedAfterFlip ==
    /\ pc[1] = "done"
    /\ result[1].kind = "StorageFailure"
    /\ \A d \in Calls \ {1} : pc[d] = "idle"
    /\ \A sid \in Shows : Booked(sid) = {}
    /\ bookings = <<>>

\* ------------------------------------------------------------------ C16
\* C16: under fair scheduling every request that is being served is
\* eventually answered, with success or with a failure, and every lock a
\* request holds is eventually released: no two requests wait on each
\* other forever and no transaction stays open.
EveryCallReturns ==
    \A c \in Calls :
        /\ Served(c) ~> (pc[c] = "done" /\ result[c].kind \in FailureKinds \cup {"Success"})
        /\ (lock[c] # "NONE") ~> (lock[c] = "NONE")

\* Every request has been answered and holds no lock; one was answered with
\* success and one, served next to it, with a storage failure.
AllAnsweredNoLockHeld ==
    /\ \A c \in Calls : pc[c] = "done" /\ lock[c] = "NONE" /\ ins[c] = <<>>
    /\ \E c, d \in Calls : Succeeded(c) /\ result[d].kind = "StorageFailure"

\* ------------------------------------------------------------------ C17
\* C17: the seats table and the bookings table agree in every committed
\* state.  For each show, a booked seat label occurs exactly once over all
\* the booking records of the show, and a label that is not booked occurs
\* in none: the number of booked seats is the number of seat entries.
Entries(sid, l) ==
    {<<k, j>> \in (DOMAIN bookings) \X (1..MaxLen) :
        /\ bookings[k].show_id = sid
        /\ j \in DOMAIN CsvLabels(bookings[k].seats)
        /\ CsvLabels(bookings[k].seats)[j] = l}

LedgerMatchesBookings ==
    \A sid \in Shows :
        /\ \A l \in AllLabels :
             Cardinality(Entries(sid, l)) =
                 IF l \in SeatLabels /\ seats[sid][l] = "booked" THEN 1 ELSE 0
        /\ Cardinality(Booked(sid)) =
              Cardinality(UNION {Entries(sid, l) : l \in AllLabels})

\* ------------------------------------------------------------------ C18
\* C18: the frame of a request.  No step changes the shows and their
\* prices, the shows that have seats or the seat labels of a show; a seat
\* changes its status only in the step that answers a request for the
\* seat's show whose list names the seat.  A request, answered with success
\* or with a failure, leaves every other seat as it was.
FrameOfReserve ==
    [][/\ shows' = shows
       /\ DOMAIN seats' = DOMAIN seats
       /\ \A sid \in DOMAIN seats :
            /\ DOMAIN seats'[sid] = DOMAIN seats[sid]
            /\ \A l \in DOMAIN seats[sid] :
                 seats'[sid][l] # seats[sid][l]
                    => \E c \in Calls :
                         /\ Returns(c)
                         /\ req[c].show_id = sid
                         /\ l \in Range(req[c].seats)]_vars

\* A request for A1 of the first show was answered with success: A1 is
\* booked there, and A2 of that show, every seat of the second show and the
\* prices are as they were seeded.
BookedA1NothingElseChanged ==
    /\ \E c \in Calls :
         Succeeded(c) /\ result[c].show_id = FirstShow /\ result[c].seats = <<"A1">>
    /\ seats[FirstShow]["A1"] = "booked"
    /\ seats[FirstShow]["A2"] = "available"
    /\ \A l \in SeatLabels : seats[SecondShow][l] = "available"
    /\ shows = ShowPrice

\* ------------------------------------------------------------ type check
TypeOK ==
    /\ shows \in [Shows -> Nat]
    /\ seats \in [Shows -> [SeatLabels -> {"available", "booked"}]]
    /\ pc \in [Calls -> {"idle", "select_price", "select_seats", "update",
                         "insert", "commit", "committing", "done"}]
    /\ lock \in [Calls -> {"NONE", "SHARED", "RESERVED", "PENDING"}]
    /\ upd \in [Calls -> 0..(MaxLen + 1)]
    /\ \A c \in Calls : Len(ins[c]) <= 1

====
